---- MODULE Spec2Model ----
(***************************************************************************)
(* Model of implementation.py: correlate_adjacent_frames,                  *)
(* make_correlation_video and is_triangular_path.                          *)
(*                                                                         *)
(* An input frame is a Height x Width array of uint8 samples.  It is kept  *)
(* as a background sample and a list of disjoint rectangles of constant    *)
(* sample, [bg |-> v, rects |-> <<[top, left, rows, cols, v], ...>>]: the  *)
(* array whose element (r, c) is the v of the rectangle that holds (r, c), *)
(* and bg where no rectangle does (operator At).  Every array has such a   *)
(* form.  The 50 x 50 surface and the frame returned are functions         *)
(* row -> column -> value, 0-based like the NumPy arrays of the source.    *)
(*                                                                         *)
(* Floating-point values are kept as exact fractions.  A normalised sample *)
(* p/255 minus the shared mean is an integer numerator over the            *)
(* denominator 2*255*Height*Width, and a correlation score is a numerator  *)
(* over the square of that denominator.  A score needs up to 61 bits, so   *)
(* it is kept as a pair <<hi, lo>> that stands for hi * 2^30 + lo.         *)
(* Where IEEE-754 rounding or an undefined cast decides the integer that   *)
(* the source produces, the model chooses among the possible integers.     *)
(***************************************************************************)
EXTENDS Integers, Sequences, FiniteSets, TLC

(* ---------------- program constants ---------------- *)
UInt8Max == 255
\* the frames are "of size 160 by 160" (docstring of correlate_adjacent_frames)
Height == 160
Width == 160
Margin == 25
OutSize == 50
WindowSize == 110
CropSize == 50
ScanStop == 51
Stride == 4
TurnThreshold == 20
TriangleTurns == 2

(* ---------------- bounds of the model ---------------- *)
\* Longest input video of the pipeline specification.
MaxFrames == 3
\* Longest correlation sequence handed to the classifier in SpecPath.
MaxCorrFrames == 4

OutIdx == 0 .. (OutSize - 1)
NoFrame == << >>
None == "None"

Min(a, b) == IF a < b THEN a ELSE b
Max(a, b) == IF a > b THEN a ELSE b
Abs(x) == IF x < 0 THEN -x ELSE x

(* ---------------- input frames ---------------- *)
\* the frame of constant sample v
Flat(v) == [bg |-> v, rects |-> << >>]

Rect(top, left, rows, cols, v) ==
  [top |-> top, left |-> left, rows |-> rows, cols |-> cols, v |-> v]

\* a dark frame with one bright square of the given side at q
Square(q, side) == [bg |-> 0, rects |-> <<Rect(q[1], q[2], side, side, UInt8Max)>>]

\* a dark frame whose template region is dim, with a bright 2x2 block at q
Marker(q) ==
  [bg |-> 0,
   rects |-> <<Rect(Margin, Margin, Height - 2 * Margin, Width - 2 * Margin, 1),
               Rect(q[1], q[2], 2, 2, UInt8Max)>>]

\* previous_frame[30:90, 40:100] = 255
ShiftedSquare == [bg |-> 0, rects |-> <<Rect(30, 40, 60, 60, UInt8Max)>>]
\* current_frame[50:110, 50:110] = 255 and current_frame[0, 0:126] = 255
SquareAndStrip ==
  [bg |-> 0, rects |-> <<Rect(50, 50, 60, 60, UInt8Max), Rect(0, 0, 1, 126, UInt8Max)>>]
\* the template rows bright, the margins above and below dark
Band == [bg |-> 0, rects |-> <<Rect(Margin, 0, Height - 2 * Margin, Width, UInt8Max)>>]

\* element (r, c) of the array f stands for
At(f, r, c) ==
  LET hit == {k \in 1 .. Len(f.rects) :
                /\ f.rects[k].top <= r /\ r < f.rects[k].top + f.rects[k].rows
                /\ f.rects[k].left <= c /\ c < f.rects[k].left + f.rects[k].cols}
  IN IF hit = {} THEN f.bg ELSE f.rects[CHOOSE k \in hit : TRUE].v

(* ---------------- exact fractions ---------------- *)
RECURSIVE Gcd(_, _)
Gcd(a, b) == IF b = 0 THEN a ELSE Gcd(b, a % b)

\* a fraction <<num, den>> in lowest terms with den > 0
Reduce(q) ==
  LET g == Gcd(Abs(q[1]), q[2])
  IN IF g = 0 THEN q ELSE <<q[1] \div g, q[2] \div g>>

RatEq(a, b) == Reduce(a) = Reduce(b)

\* a + b over the least common denominator
RatAdd(a, b) ==
  LET l == (a[2] \div Gcd(a[2], b[2])) * b[2]
  IN <<a[1] * (l \div a[2]) + b[1] * (l \div b[2]), l>>

RatHalf(a) == <<a[1], 2 * a[2]>>

(* ---------------- integers of up to 61 bits ---------------- *)
\* <<hi, lo>> stands for hi * Base + lo, with 0 <= lo < Base
Half == 2 ^ 15
Base == Half * Half

Wide(x) == <<x \div Base, x % Base>>

WAdd(a, b) ==
  LET lo == a[2] + b[2]
  IN <<a[1] + b[1] + (lo \div Base), lo % Base>>

WNeg(a) == IF a[2] = 0 THEN <<0 - a[1], 0>> ELSE <<0 - a[1] - 1, Base - a[2]>>

WSub(a, b) == WAdd(a, WNeg(b))

WLess(a, b) == a[1] < b[1] \/ (a[1] = b[1] /\ a[2] < b[2])

\* x * y for 0 <= x, y < Base
MulNat(x, y) ==
  LET x1 == x \div Half
      x0 == x % Half
      y1 == y \div Half
      y0 == y % Half
      cross == x1 * y0 + x0 * y1
      low == (cross % Half) * Half + x0 * y0
  IN <<x1 * y1 + (cross \div Half) + (low \div Base), low % Base>>

\* x * y for -Base < x, y < Base
WMul(x, y) ==
  IF (x < 0) = (y < 0) THEN MulNat(Abs(x), Abs(y)) ELSE WNeg(MulNat(Abs(x), Abs(y)))

\* a * k for 0 <= k < Base
WTimes(a, k) == WAdd(<<a[1] * k, 0>>, MulNat(a[2], k))

\* the sum of the wide numbers s[lo], ..., s[hi]
RECURSIVE WSum(_, _, _)
WSum(s, lo, hi) ==
  IF lo > hi THEN <<0, 0>> ELSE WAdd(s[lo], WSum(s, lo + 1, hi))

\* the sum of the integers s[lo], ..., s[hi]
RECURSIVE SumRange(_, _, _)
SumRange(s, lo, hi) ==
  IF lo > hi THEN 0
  ELSE IF lo = hi THEN s[lo]
  ELSE LET mid == (lo + hi) \div 2
       IN SumRange(s, lo, mid) + SumRange(s, mid + 1, hi)

(* ---------------- correlate_adjacent_frames ---------------- *)
\* the function f stored as a table (a function expression is evaluated
\* anew at every application)
Tabulate(f) == f @@ << >>

\* the length of the overlap of the intervals [a, a + an) and [b, b + bn)
Ov(a, an, b, bn) == Max(0, Min(a + an, b + bn) - Max(a, b))

\* the number of elements of f inside the rows [top, top + rows) and the
\* columns [left, left + cols) that rectangle k covers
Inside(f, k, top, left, rows, cols) ==
  Ov(f.rects[k].top, f.rects[k].rows, top, rows)
    * Ov(f.rects[k].left, f.rects[k].cols, left, cols)

\* the samples that occur in that part of f
ValuesIn(f, top, left, rows, cols) ==
  LET clipped == [k \in 1 .. Len(f.rects) |-> Inside(f, k, top, left, rows, cols)]
      whole == Ov(0, Height, top, rows) * Ov(0, Width, left, cols)
  IN {f.rects[k].v : k \in {j \in 1 .. Len(f.rects) : clipped[j] > 0}}
       \cup (IF SumRange(clipped, 1, Len(f.rects)) < whole THEN {f.bg} ELSE {})

Values(f) == ValuesIn(f, 0, 0, Height, Width)

\* np.sum over all samples of the frame
SumPixels(f) ==
  f.bg * (Height * Width)
    + SumRange([k \in 1 .. Len(f.rects) |->
                  (f.rects[k].v - f.bg) * f.rects[k].rows * f.rects[k].cols],
               1, Len(f.rects))

\* np.mean(np.copy(frame) / 255): sum of the samples over 255 * frame.size
Mean(f) == <<SumPixels(f), UInt8Max * (Height * Width)>>

\* the slip mean(previous) + mean(current) / 2
AveragePixelValue_Slip(previous, current) ==
  RatAdd(Mean(previous), RatHalf(Mean(current)))

\* line 24: (np.mean(previous) + np.mean(current)) / 2
AveragePixelValue(previous, current) == RatHalf(RatAdd(Mean(previous), Mean(current)))

\* lines 21-27: frame / 255 - average, every sample as a numerator over mid[2]
Centred(f, mid) ==
  LET c(v) == v * (mid[2] \div UInt8Max) - mid[1]
  IN [bg |-> c(f.bg),
      rects |-> [k \in 1 .. Len(f.rects) |-> [f.rects[k] EXCEPT !.v = c(f.rects[k].v)]]]

\* line 29: the shape of normalized_current_frame[25:height-25, 25:width-25]
KernelRows == Max(0, Height - 2 * Margin)
KernelCols == Max(0, Width - 2 * Margin)

\* the part of the array cc from (from, from) on, KernelRows x KernelCols
CropFrom(cc, from) ==
  [bg |-> cc.bg,
   rects |-> [k \in 1 .. Len(cc.rects) |->
     LET q == cc.rects[k]
     IN [top |-> Max(q.top, from) - from,
         left |-> Max(q.left, from) - from,
         rows |-> Ov(q.top, q.rows, from, KernelRows),
         cols |-> Ov(q.left, q.cols, from, KernelCols),
         v |-> q.v]]]

\* the kernel cut one sample too low and too far right
ConvolutionalKernel_Shifted(cc) == CropFrom(cc, Margin + 1)

\* line 29: normalized_current_frame[25:height-25, 25:width-25]
ConvolutionalKernel(cc) == CropFrom(cc, Margin)

\* line 36: the shape of normalized_previous_frame[r:r+110, c:c+110]; a
\* slice stops at the frame's edge
WindowRows(r) == Max(0, Min(Height, r + WindowSize) - Min(Height, r))
WindowCols(c) == Max(0, Min(Width, c + WindowSize) - Min(Width, c))

\* NumPy's broadcasting rule for one axis of kernel * window
Compatible(k, w) == k = w \/ k = 1 \/ w = 1

\* line 36 raises ValueError for no offset
Broadcasts ==
  /\ \A r \in OutIdx : Compatible(KernelRows, WindowRows(r))
  /\ \A c \in OutIdx : Compatible(KernelCols, WindowCols(c))

\* the extent of kernel * window along one axis
ProductExtent(k, w) == IF k = 1 THEN w ELSE k

\* The positions <<first, count>> that a constant piece of the kernel
\* (positions at .. at + len - 1 of the kernel) takes along one axis of
\* kernel * window: an axis of length 1 is repeated over the other operand's.
KernelSpan(at, len, k, w) ==
  IF k = 1 /\ w # 1 THEN <<0, IF len > 0 THEN w ELSE 0>> ELSE <<at, len>>

\* the same for a constant piece of the previous frame (positions
\* at .. at + len - 1 of the frame) and the window that starts at offset
WindowSpan(at, len, offset, k, w) ==
  LET inside == Ov(at, len, offset, w)
  IN IF w = 1 /\ k # 1 THEN <<0, IF inside > 0 THEN k ELSE 0>>
     ELSE <<Max(at, offset) - offset, inside>>

OvSpan(a, b) == Ov(a[1], a[2], b[1], b[2])

\* For the row offset r: the number of rows of kernel * window that each
\* rectangle of the kernel, each rectangle of the previous frame, and each
\* pair of one and the other cover, in that order.
RowPart(kernel, cp, r) ==
  LET m == Len(kernel.rects)
      q == Len(cp.rects)
      ks == [x \in 1 .. m |->
               KernelSpan(kernel.rects[x].top, kernel.rects[x].rows,
                          KernelRows, WindowRows(r))]
      ps == [x \in 1 .. q |->
               WindowSpan(cp.rects[x].top, cp.rects[x].rows, r,
                          KernelRows, WindowRows(r))]
  IN [x \in 1 .. (m + q + m * q) |->
        IF x <= m THEN ks[x][2]
        ELSE IF x <= m + q THEN ps[x - m][2]
        ELSE OvSpan(ks[((x - m - q - 1) \div q) + 1], ps[((x - m - q - 1) % q) + 1])]

\* the same for the column offset c
ColPart(kernel, cp, c) ==
  LET m == Len(kernel.rects)
      q == Len(cp.rects)
      ks == [x \in 1 .. m |->
               KernelSpan(kernel.rects[x].left, kernel.rects[x].cols,
                          KernelCols, WindowCols(c))]
      ps == [x \in 1 .. q |->
               WindowSpan(cp.rects[x].left, cp.rects[x].cols, c,
                          KernelCols, WindowCols(c))]
  IN [x \in 1 .. (m + q + m * q) |->
        IF x <= m THEN ks[x][2]
        ELSE IF x <= m + q THEN ps[x - m][2]
        ELSE OvSpan(ks[((x - m - q - 1) \div q) + 1], ps[((x - m - q - 1) % q) + 1])]

\* line 36: np.sum(kernel * window).  Both arrays are constant on their
\* pieces (piece 0 is the background), so the sum of the elementwise
\* products is, over the pairs of a kernel piece and a window piece, the
\* product of the two values times the number of positions where the two
\* pieces meet.  size is the number of elements of kernel * window and area
\* holds the numbers of positions in the order of RowPart.
SumProduct(kernel, cp, size, area) ==
  LET m == Len(kernel.rects)
      q == Len(cp.rects)
      kv(i) == IF i = 0 THEN kernel.bg ELSE kernel.rects[i].v
      pv(j) == IF j = 0 THEN cp.bg ELSE cp.rects[j].v
      both(i, j) == area[m + q + (i - 1) * q + j]
      meet(i, j) ==
        IF i > 0 /\ j > 0 THEN both(i, j)
        ELSE IF i > 0 THEN area[i] - SumRange([y \in 1 .. q |-> both(i, y)], 1, q)
        ELSE IF j > 0 THEN area[m + j] - SumRange([x \in 1 .. m |-> both(x, j)], 1, m)
        ELSE size - SumRange(area, 1, m + q) + SumRange(area, m + q + 1, m + q + m * q)
  IN WSum([x \in 0 .. ((m + 1) * (q + 1) - 1) |->
             WTimes(WMul(kv(x \div (q + 1)), pv(x % (q + 1))),
                    meet(x \div (q + 1), x % (q + 1)))],
          0, (m + 1) * (q + 1) - 1)

\* The surface over the offsets 0 .. last in both directions.  Offsets whose
\* windows meet the pieces in the same numbers of rows and columns have the
\* same score, which is computed once.
Surface(cp, kernel, last) ==
  LET rows == Tabulate([r \in 0 .. last |->
                <<ProductExtent(KernelRows, WindowRows(r)),
                  Tabulate(RowPart(kernel, cp, r))>>])
      cols == Tabulate([c \in 0 .. last |->
                <<ProductExtent(KernelCols, WindowCols(c)),
                  Tabulate(ColPart(kernel, cp, c))>>])
      score == Tabulate([a \in {rows[r] : r \in 0 .. last} |->
                 Tabulate([b \in {cols[c] : c \in 0 .. last} |->
                   SumProduct(kernel, cp, a[1] * b[1],
                              [x \in DOMAIN a[2] |-> a[2][x] * b[2][x]])])])
  IN Tabulate([r \in 0 .. last |->
       Tabulate([c \in 0 .. last |-> score[rows[r]][cols[c]]])])

\* the surface over every valid offset, range(51)^2
OutputImage_AllValid(cp, kernel) == Surface(cp, kernel, OutSize)

\* lines 33-36: the correlation surface, one score per offset of range(50)^2
OutputImage(cp, kernel) == Surface(cp, kernel, OutSize - 1)

\* the greatest and the least of the wide numbers s[lo], ..., s[hi]
RECURSIVE WMaxRange(_, _, _)
WMaxRange(s, lo, hi) ==
  IF lo = hi THEN s[lo]
  ELSE LET mid == (lo + hi) \div 2
           a == WMaxRange(s, lo, mid)
           b == WMaxRange(s, mid + 1, hi)
       IN IF WLess(a, b) THEN b ELSE a

RECURSIVE WMinRange(_, _, _)
WMinRange(s, lo, hi) ==
  IF lo = hi THEN s[lo]
  ELSE LET mid == (lo + hi) \div 2
           a == WMinRange(s, lo, mid)
           b == WMinRange(s, mid + 1, hi)
       IN IF WLess(b, a) THEN b ELSE a

\* lines 38-39
MaxValue(img) ==
  LET rows == [r \in OutIdx |-> WMaxRange(img[r], 0, OutSize - 1)]
  IN WMaxRange(rows, 0, OutSize - 1)
MinValue(img) ==
  LET rows == [r \in OutIdx |-> WMinRange(img[r], 0, OutSize - 1)]
  IN WMinRange(rows, 0, OutSize - 1)

\* x + y for wide 0 <= x, y < m, as <<carry, (x + y) % m>>
AddMod(x, y, m) ==
  LET room == WSub(m, y)
  IN IF WLess(x, room) THEN <<0, WAdd(x, y)>> ELSE <<1, WSub(x, room)>>

\* <<floor(k * d / m), (k * d) % m>> for wide 0 <= d < m, k = 2^bits - 1
RECURSIVE MulDiv(_, _, _)
MulDiv(d, m, bits) ==
  IF bits = 0 THEN <<0, <<0, 0>>>>
  ELSE LET h == MulDiv(d, m, bits - 1)
           dbl == AddMod(h[2], h[2], m)
           inc == AddMod(dbl[2], d, m)
       IN <<2 * h[1] + dbl[1] + inc[1], inc[2]>>

\* (value - min) * 255.0 / (max - min) as <<integer part, remainder>>, the
\* remainder in units of the scores' denominator
Scaled(d, range) ==
  IF d = range THEN <<UInt8Max, <<0, 0>>>> ELSE MulDiv(d, range, 8)

\* the samples a build can produce when nan is cast to uint8
NanCastOutcomes == {0, 255}

RECURSIVE OddPart(_)
OddPart(x) == IF x % 2 = 0 THEN OddPart(x \div 2) ELSE x

\* Lines 21-40 are exact in float64 on the frame f: every sample is 0 or
\* 255, so f / 255 is 0.0 or 1.0, and the number of bright samples is a
\* multiple of the odd part of the frame's size, so np.mean is a multiple of
\* 1 / 2048.  The centred samples are then multiples of 2^-11 below 1, their
\* products multiples of 2^-22, and no sum or difference of at most 110 * 110
\* of them needs more than the 53 bits of a double.
Dyadic(f) ==
  /\ Values(f) \subseteq {0, UInt8Max}
  /\ SumPixels(f) % (UInt8Max * OddPart(Height * Width)) = 0

\* Every window normalized_previous_frame[r:r+110, c:c+110] of line 36 holds
\* the same samples: the previous frame is constant on the rows and columns
\* that the windows reach.  Line 36 then repeats one computation and every
\* score is the same double.
WindowInvariant(previous) ==
  Cardinality(ValuesIn(previous, 0, 0, OutSize - 1 + WindowSize,
                       OutSize - 1 + WindowSize)) <= 1

\* How far rounding can move the remainder of Scaled when lines 21-40 are
\* not exact.  A centred sample is off by less than 2^-47, a product of two
\* by less than 2^-46, a sum of 110 * 110 products by less than 2^-32, and
\* with it (value - min) * 255.0 / (max - min) by less than
\* 2^-20 / (max - min); in units of the scores' denominator den * den that
\* is the bound below.
RoundingSlack(den) == (den \div (2 ^ 10)) * (den \div (2 ^ 10))

\* line 40: max_value - min_value in exact arithmetic
Range(img) == WSub(MaxValue(img), MinValue(img))

\* the surface is too flat for the rounding of lines 21-36 to leave its
\* shape alone
Noisy(img, previous, current) ==
  /\ ~(Dyadic(previous) /\ Dyadic(current))
  /\ ~WLess(Wide(RoundingSlack(AveragePixelValue(previous, current)[2])), Range(img))

\* The values max_value = min_value of line 40 can have in float64.
DegenerateCases(img, previous, current) ==
  IF WindowInvariant(previous)
       \/ (Dyadic(previous) /\ Dyadic(current) /\ Range(img) = <<0, 0>>)
  THEN {TRUE}
  ELSE IF Noisy(img, previous, current) THEN {TRUE, FALSE}
  ELSE {FALSE}

\* line 42 for max_value = min_value: every sample is 0.0 / 0.0 = nan (NumPy
\* warns, it does not raise); casting nan to uint8 is undefined in C, the
\* build decides the sample.
NanFrames == {[r \in OutIdx |-> [c \in OutIdx |-> nan]] : nan \in NanCastOutcomes}

\* the frames of a surface whose shape is rounding noise: the least score
\* gives 0 and the greatest 255 or the number below it
NoiseFrames ==
  {f \in [OutIdx -> [OutIdx -> 0 .. UInt8Max]] :
     /\ \E r \in OutIdx : \E c \in OutIdx : f[r][c] = 0
     /\ \E r \in OutIdx : \E c \in OutIdx : f[r][c] >= UInt8Max - 1}

\* Lines 40-42 for one choice of roundings.  sample[s] is Scaled of the
\* score s; the offsets in down land on the integer below the exact
\* quotient's integer part and the offsets in up on the integer above it.
PaddedImage(img, sample, down, up) ==
  [r \in OutIdx |-> [c \in OutIdx |->
     sample[img[r][c]][1]
       - (IF <<r, c>> \in down THEN 1 ELSE 0)
       + (IF <<r, c>> \in up THEN 1 ELSE 0)]]

\* Every frame that lines 40-42 can return for the surface img when
\* max_value # min_value.  astype(np.uint8) truncates.  With exact
\* arithmetic the sample is the integer part of the exact quotient.
\* Otherwise a quotient within the rounding slack above an integer can come
\* out below that integer (1.3672846239402305e-05 * 255.0 /
\* 1.3672846239402305e-05 is 254.99999999999997) and a quotient within the
\* slack below an integer can reach it; each offset has its own rounding.
ScaledOutcomes(img, previous, current) ==
  LET lo == MinValue(img)
      range == Range(img)
      slack == Wide(RoundingSlack(AveragePixelValue(previous, current)[2]))
      sample == Tabulate([s \in {img[r][c] : r \in OutIdx, c \in OutIdx} |->
                            Scaled(WSub(s, lo), range)])
      low == {o \in OutIdx \X OutIdx :
                LET s == sample[img[o[1]][o[2]]]
                IN s[1] >= 1 /\ ~WLess(slack, s[2])}
      high == {o \in OutIdx \X OutIdx :
                 LET s == sample[img[o[1]][o[2]]]
                 IN /\ s[1] < UInt8Max
                    /\ s[2] # <<0, 0>>
                    /\ ~WLess(slack, WSub(range, s[2]))}
  IN IF Dyadic(previous) /\ Dyadic(current)
     THEN {PaddedImage(img, sample, {}, {})}
     ELSE IF Noisy(img, previous, current) THEN NoiseFrames
     ELSE {PaddedImage(img, sample, down, up) : down \in SUBSET low, up \in SUBSET high}

\* lines 38-46: every frame that can be returned for the surface img
RescaleOutcomes(img, previous, current) ==
  UNION {IF d THEN NanFrames ELSE ScaledOutcomes(img, previous, current) :
           d \in DegenerateCases(img, previous, current)}

\* lines 19-46: every frame correlate_adjacent_frames(previous, current) can
\* return; none when line 36 raises
correlate_adjacent_frames(previous, current) ==
  LET mid == AveragePixelValue(previous, current)
      cp == Centred(previous, mid)
      cc == Centred(current, mid)
      img == OutputImage(cp, ConvolutionalKernel(cc))
  IN IF Broadcasts THEN RescaleOutcomes(img, previous, current) ELSE {}

(* ---------------- state ---------------- *)
VARIABLES
  caller,                     \* the function the run entered
  pc,                         \* the statement about to run
  previous_frame,             \* arguments of the active correlate_adjacent_frames
  current_frame,
  average_pixel_value,        \* line 24, a fraction <<num, den>>
  normalized_previous_frame,  \* lines 26-27, numerators over average_pixel_value[2]
  normalized_current_frame,
  output_image,               \* lines 33-36, wide numerators over the square of it
  degenerate,                 \* max_value = min_value on line 40
  padded_image,               \* line 42, the value returned
  video,                      \* line 65
  output_filename,
  output,                     \* line 66
  i,                          \* loop index of line 67
  written,                    \* what mimwrite was handed, in order
  correlated_video,           \* line 88
  n,                          \* frames of correlated_video consumed by line 93
  last_max_loc,
  turns,
  max_locs,                   \* the max_loc of every frame consumed so far
  result

corrVars == <<previous_frame, current_frame, average_pixel_value,
              normalized_previous_frame, normalized_current_frame,
              output_image, degenerate, padded_image>>
videoVars == <<video, output_filename, output, i, written>>
pathVars == <<correlated_video, n, last_max_loc, turns, max_locs, result>>
vars == <<caller, pc, corrVars, videoVars, pathVars>>

\* no array has a negative sample
NoInput == Flat(-1)

NoCall ==
  /\ previous_frame = NoInput
  /\ current_frame = NoInput
  /\ average_pixel_value = <<0, 1>>
  /\ normalized_previous_frame = NoInput
  /\ normalized_current_frame = NoInput
  /\ output_image = NoFrame
  /\ degenerate = None
  /\ padded_image = NoFrame

NoVideo ==
  /\ video = << >>
  /\ output_filename = None
  /\ output = << >>
  /\ i = 0
  /\ written = << >>

NoPath ==
  /\ correlated_video = << >>
  /\ n = 0
  /\ last_max_loc = None
  /\ turns = 0
  /\ max_locs = << >>
  /\ result = None

(* ---------------- correlate_adjacent_frames, step by step ---------------- *)
\* lines 19-27
Normalize ==
  /\ pc = "normalize"
  /\ LET mid == AveragePixelValue(previous_frame, current_frame)
     IN /\ average_pixel_value' = mid
        /\ normalized_previous_frame' = Centred(previous_frame, mid)
        /\ normalized_current_frame' = Centred(current_frame, mid)
  /\ pc' = "correlate"
  /\ UNCHANGED <<caller, previous_frame, current_frame, output_image, degenerate,
                 padded_image, videoVars, pathVars>>

\* lines 29-36; NumPy raises ValueError when kernel and window do not broadcast
Correlate ==
  /\ pc = "correlate"
  /\ IF Broadcasts
     THEN /\ output_image' = OutputImage(normalized_previous_frame,
                                         ConvolutionalKernel(normalized_current_frame))
          /\ pc' = "rescale"
     ELSE /\ output_image' = output_image
          /\ pc' = "raised"
  /\ UNCHANGED <<caller, previous_frame, current_frame, average_pixel_value,
                 normalized_previous_frame, normalized_current_frame, degenerate,
                 padded_image, videoVars, pathVars>>

\* the rescale under Python's float division, which raises on 0.0 / 0.0
Rescale_Raises ==
  /\ pc = "rescale"
  /\ \E d \in DegenerateCases(output_image, previous_frame, current_frame) :
       /\ degenerate' = d
       /\ IF d
          THEN /\ pc' = "raised"
               /\ padded_image' = padded_image
          ELSE /\ pc' = "returned"
               /\ padded_image' \in ScaledOutcomes(output_image, previous_frame,
                                                   current_frame)
  /\ UNCHANGED <<caller, previous_frame, current_frame, average_pixel_value,
                 normalized_previous_frame, normalized_current_frame, output_image,
                 videoVars, pathVars>>

\* lines 38-46
Rescale ==
  /\ pc = "rescale"
  /\ \E d \in DegenerateCases(output_image, previous_frame, current_frame) :
       /\ degenerate' = d
       /\ padded_image' \in (IF d THEN NanFrames
                             ELSE ScaledOutcomes(output_image, previous_frame,
                                                 current_frame))
  /\ pc' = "returned"
  /\ UNCHANGED <<caller, previous_frame, current_frame, average_pixel_value,
                 normalized_previous_frame, normalized_current_frame, output_image,
                 videoVars, pathVars>>

\* frames on which lines 21-40 are exact in float64
ExactFrames ==
  {Flat(0), Flat(UInt8Max), Square(<<60, 60>>, 5), Square(<<84, 84>>, 5), Band,
   ShiftedSquare}

\* pairs with a frame on which they are not
RoundedPairs ==
  { <<ShiftedSquare, SquareAndStrip>>,
    <<Marker(<<23, 23>>), Marker(<<23, 23>>)>>,
    <<Square(<<60, 60>>, 2), Square(<<70, 66>>, 2)>>,
    <<Flat(128), Flat(128)>>,
    <<Flat(1), Flat(128)>>,
    <<Flat(128), Marker(<<23, 23>>)>> }

FramePairs == (ExactFrames \X ExactFrames) \cup RoundedPairs

InitCorr ==
  /\ caller = "correlate_adjacent_frames"
  /\ pc = "normalize"
  /\ \E pair \in FramePairs : previous_frame = pair[1] /\ current_frame = pair[2]
  /\ average_pixel_value = <<0, 1>>
  /\ normalized_previous_frame = NoInput
  /\ normalized_current_frame = NoInput
  /\ output_image = NoFrame
  /\ degenerate = None
  /\ padded_image = NoFrame
  /\ NoVideo
  /\ NoPath

NextCorr == Normalize \/ Correlate \/ Rescale

SpecCorr == InitCorr /\ [][NextCorr]_vars

(* ---------------- make_correlation_video ---------------- *)
\* the frames of the videos of the pipeline: a flat frame and two frames
\* with a bright 5x5 square, 24 rows and columns apart
VideoFrames == {Flat(UInt8Max), Square(<<60, 60>>, 5), Square(<<84, 84>>, 5)}

\* videos of two and three frames of constant intensity
FlatFrames == {Flat(0), Flat(128), Flat(UInt8Max)}
FlatVideos ==
  {<<f, g>> : f \in FlatFrames, g \in FlatFrames}
    \cup {<<f, g, f>> : f \in FlatFrames, g \in FlatFrames}

RECURSIVE SeqsUpTo(_, _)
SeqsUpTo(S, len) ==
  IF len = 0 THEN {<< >>}
  ELSE LET shorter == SeqsUpTo(S, len - 1)
       IN shorter \cup {Append(q, x) : q \in {t \in shorter : Len(t) = len - 1}, x \in S}

Videos == SeqsUpTo(VideoFrames, MaxFrames) \cup FlatVideos

\* the call with its two arguments exchanged
LoopCall_Swapped ==
  /\ pc = "loop"
  /\ i < Len(video) - 1
  /\ previous_frame' = video[i + 2]
  /\ current_frame' = video[i + 1]
  /\ pc' = "normalize"
  /\ UNCHANGED <<caller, average_pixel_value, normalized_previous_frame,
                 normalized_current_frame, output_image, degenerate,
                 padded_image, videoVars, pathVars>>

\* lines 67-70: the loop test and the call of correlate_adjacent_frames
LoopCall ==
  /\ pc = "loop"
  /\ i < Len(video) - 1
  /\ previous_frame' = video[i + 1]
  /\ current_frame' = video[i + 2]
  /\ pc' = "normalize"
  /\ UNCHANGED <<caller, average_pixel_value, normalized_previous_frame,
                 normalized_current_frame, output_image, degenerate,
                 padded_image, videoVars, pathVars>>

\* line 70: the frame returned is appended
LoopAppend ==
  /\ pc = "returned"
  /\ caller # "correlate_adjacent_frames"
  /\ output' = Append(output, padded_image)
  /\ i' = i + 1
  /\ pc' = "loop"
  /\ UNCHANGED <<caller, corrVars, video, output_filename, written, pathVars>>

\* lines 67 and 72: range(len(video) - 1) is exhausted
LoopExit ==
  /\ pc = "loop"
  /\ ~(i < Len(video) - 1)
  /\ pc' = "write"
  /\ UNCHANGED <<caller, corrVars, videoVars, pathVars>>

\* mimwrite called whether or not a filename was given
Write_Always ==
  /\ pc = "write"
  /\ written' = Append(written, output)
  /\ pc' = "return"
  /\ UNCHANGED <<caller, corrVars, video, output_filename, output, i, pathVars>>

\* lines 74-75
Write ==
  /\ pc = "write"
  /\ written' = IF output_filename # None THEN Append(written, output) ELSE written
  /\ pc' = "return"
  /\ UNCHANGED <<caller, corrVars, video, output_filename, output, i, pathVars>>

\* line 77, back in the caller (line 88 for is_triangular_path)
Return ==
  /\ pc = "return"
  /\ IF caller = "is_triangular_path"
     THEN /\ correlated_video' = output
          /\ pc' = "frames"
     ELSE /\ correlated_video' = correlated_video
          /\ pc' = "done"
  /\ UNCHANGED <<caller, corrVars, videoVars, n, last_max_loc, turns, max_locs, result>>

(* ---------------- is_triangular_path ---------------- *)
\* line 94: f[0:50, 0:50]
Crop(f) ==
  Tabulate([r \in {x \in DOMAIN f : x < CropSize} |->
              Tabulate([c \in {x \in DOMAIN f[r] : x < CropSize} |-> f[r][c]])])

\* line 99: np.sum(frame[r:r+2, c:c+2]); a slice stops at the frame's edge
BlockSum(frame, r, c) ==
  LET cell(rr, cc) ==
        IF rr \in DOMAIN frame /\ cc \in DOMAIN frame[rr] THEN frame[rr][cc] ELSE 0
  IN cell(r, c) + cell(r, c + 1) + cell(r + 1, c) + cell(r + 1, c + 1)

\* range(0, 51, 4) has the values 4 * k for k in 0 .. LastScan
LastScan == (ScanStop - 1) \div Stride

\* the scan with >= in place of >, which keeps the last of equal sums
RECURSIVE ScanRow_LastWins(_, _, _, _)
ScanRow_LastWins(frame, r, k, best) ==
  IF k > LastScan THEN best
  ELSE LET val == BlockSum(frame, r, Stride * k)
       IN IF val >= best[1]
          THEN ScanRow_LastWins(frame, r, k + 1, <<val, <<r, Stride * k>>>>)
          ELSE ScanRow_LastWins(frame, r, k + 1, best)

\* lines 98-102 for the row r from column 4 * k on; best is <<max_val, max_loc>>
RECURSIVE ScanRow(_, _, _, _)
ScanRow(frame, r, k, best) ==
  IF k > LastScan THEN best
  ELSE LET val == BlockSum(frame, r, Stride * k)
       IN IF val > best[1]
          THEN ScanRow(frame, r, k + 1, <<val, <<r, Stride * k>>>>)
          ELSE ScanRow(frame, r, k + 1, best)

\* lines 97-102 from row 4 * k on
RECURSIVE ScanRows(_, _, _)
ScanRows(frame, k, best) ==
  IF k > LastScan THEN best
  ELSE ScanRows(frame, k + 1, ScanRow(frame, Stride * k, 0, best))

\* lines 94-102: max_loc of one frame of the correlation video
MaxLoc(f) == ScanRows(Crop(f), 0, <<0, <<0, 0>>>>)[2]

\* line 107 squared: sqrt is increasing and sqrt(400) = 20 exactly, so
\* change > 20 exactly when the squared distance exceeds 400
SquaredChange(a, b) == (a[1] - b[1]) * (a[1] - b[1]) + (a[2] - b[2]) * (a[2] - b[2])
\* the test change >= 20
IsTurn_AtLeast(a, b) == SquaredChange(a, b) >= TurnThreshold * TurnThreshold
IsTurn(a, b) == SquaredChange(a, b) > TurnThreshold * TurnThreshold

\* the loop with last_max_loc starting at (0, 0) instead of None
NextFrame_FromOrigin ==
  /\ pc = "frames"
  /\ n < Len(correlated_video)
  /\ LET max_loc == MaxLoc(correlated_video[n + 1])
         last == IF last_max_loc = None THEN <<0, 0>> ELSE last_max_loc
     IN /\ max_locs' = Append(max_locs, max_loc)
        /\ last_max_loc' = max_loc
        /\ turns' = IF IsTurn(max_loc, last) THEN turns + 1 ELSE turns
  /\ n' = n + 1
  /\ UNCHANGED <<caller, pc, corrVars, videoVars, correlated_video, result>>

\* lines 93-110: one iteration of the loop over correlated_video
NextFrame ==
  /\ pc = "frames"
  /\ n < Len(correlated_video)
  /\ LET max_loc == MaxLoc(correlated_video[n + 1])
     IN /\ max_locs' = Append(max_locs, max_loc)
        /\ last_max_loc' = max_loc
        /\ turns' = IF last_max_loc # None /\ IsTurn(max_loc, last_max_loc)
                    THEN turns + 1 ELSE turns
  /\ n' = n + 1
  /\ UNCHANGED <<caller, pc, corrVars, videoVars, correlated_video, result>>

\* lines 112-115
Classify ==
  /\ pc = "frames"
  /\ n = Len(correlated_video)
  /\ result' = (turns = TriangleTurns)
  /\ pc' = "done"
  /\ UNCHANGED <<caller, corrVars, videoVars, correlated_video, n, last_max_loc,
                 turns, max_locs>>

(* ---------------- the pipeline ---------------- *)
Init ==
  /\ caller \in {"make_correlation_video", "is_triangular_path"}
  /\ pc = "loop"
  /\ NoCall
  /\ video \in Videos
  /\ output_filename \in (IF caller = "is_triangular_path" THEN {None}
                          ELSE {None, "out.gif"})
  /\ output = << >>
  /\ i = 0
  /\ written = << >>
  /\ NoPath

Next ==
  \/ LoopCall
  \/ Normalize
  \/ Correlate
  \/ Rescale
  \/ LoopAppend
  \/ LoopExit
  \/ Write
  \/ Return
  \/ NextFrame
  \/ Classify

Spec == Init /\ [][Next]_vars

(* ---------------- the classifier on given correlation videos ---------------- *)
QIdx == 0 .. (OutSize - 1)

\* a quantized frame that is 0 except for the listed <<row, column, sample>>
Pixels(S) ==
  [r \in QIdx |-> [c \in QIdx |->
     IF \E p \in S : p[1] = r /\ p[2] = c
     THEN (CHOOSE p \in S : p[1] = r /\ p[2] = c)[3]
     ELSE 0]]

\* a 2x2 block of sample v with its top-left corner at q
Block(q, v) == {<<q[1] + a, q[2] + b, v>> : a \in {0, 1}, b \in {0, 1}}

Spot(q) == Pixels(Block(q, UInt8Max))

\* peaks on the scan grid: a walk in two steps of exactly 20 that ends 40
\* from its start, and a far corner
PathSpots == {<<0, 0>>, <<12, 16>>, <<24, 32>>, <<40, 40>>}
PathFrames == {Spot(q) : q \in PathSpots}

\* frames that exercise the scan itself
ScanFrames ==
  { Pixels({}),
    [r \in QIdx |-> [c \in QIdx |-> UInt8Max]],
    Pixels({<<2, 2, UInt8Max>>}),
    Pixels({<<3, 3, UInt8Max>>}),
    Pixels(Block(<<8, 8>>, UInt8Max) \cup Block(<<4, 20>>, UInt8Max)),
    Pixels(Block(<<8, 8>>, UInt8Max) \cup Block(<<8, 4>>, UInt8Max)),
    Pixels(Block(<<12, 12>>, 100) \cup {<<20, 21, UInt8Max>>}),
    Pixels(Block(<<48, 48>>, UInt8Max)),
    Pixels({<<49, 49, UInt8Max>>, <<0, 49, 1>>}),
    Pixels(Block(<<17, 33>>, UInt8Max) \cup {<<44, 0, 200>>}) }

InitPath ==
  /\ caller = "is_triangular_path"
  /\ pc = "frames"
  /\ NoCall
  /\ NoVideo
  /\ correlated_video \in SeqsUpTo(PathFrames, MaxCorrFrames)
                          \cup {<<f>> : f \in ScanFrames}
                          \cup {<<f, g>> : f \in ScanFrames, g \in ScanFrames}
  /\ n = 0
  /\ last_max_loc = None
  /\ turns = 0
  /\ max_locs = << >>
  /\ result = None

NextPath == NextFrame \/ Classify

SpecPath == InitPath /\ [][NextPath]_vars

(* ======================= properties ======================= *)
Samples(img) == {img[r][c] : r \in DOMAIN img, c \in DOMAIN img[0]}
ScanGrid == {Stride * k : k \in 0 .. 12}

\* the Euclidean distance between a and b is strictly greater than 20
FartherThan20(a, b) ==
  (a[1] - b[1]) * (a[1] - b[1]) + (a[2] - b[2]) * (a[2] - b[2]) > 400

Jumps(locs) == {k \in 2 .. Len(locs) : FartherThan20(locs[k - 1], locs[k])}

\* C1: is_triangular_path returns True exactly when 2 of the consecutive
\* pairs of peak locations are farther apart than 20; after every frame the
\* previous peak location is the peak of that frame, so the turn counter is
\* the number of such pairs among the frames consumed.
C1_TurnsAreJumps ==
  /\ turns = Cardinality(Jumps(max_locs))
  /\ (n > 0 => last_max_loc = max_locs[n])
  /\ (pc = "done" => result = (Cardinality(Jumps(max_locs)) = 2))

\* a triangle found on a path whose first step was exactly 20 long
C1_Witness ==
  /\ pc = "done"
  /\ result = TRUE
  /\ Len(max_locs) = 4
  /\ max_locs[1] = <<0, 0>>
  /\ max_locs[2] = <<12, 16>>
  /\ max_locs[3] = <<40, 40>>

\* C2: make_correlation_video returns N - 1 frames for N >= 2 input frames
\* and none for N < 2, and frame k of the result is a frame
\* correlate_adjacent_frames returns for input frame k as previous_frame
\* and input frame k + 1 as current_frame.
C2_AdjacentPairs ==
  pc = "return" =>
    /\ Len(output) = (IF Len(video) >= 2 THEN Len(video) - 1 ELSE 0)
    /\ \A k \in 1 .. Len(output) :
         output[k] \in correlate_adjacent_frames(video[k], video[k + 1])

C2_Witness ==
  /\ pc = "return"
  /\ Len(video) = 3
  /\ Len(output) = 2
  /\ video[1] # video[2]
  /\ output[1] # output[2]

\* the offsets at which the scores are recomputed sample by sample
CheckedOffsets == {<<0, 0>>, <<5, 15>>, <<23, 23>>, <<25, 25>>, <<37, 12>>, <<49, 49>>}

\* The score at the checked offsets is the sum, over the positions (a, b)
\* of the 110x110 template, of the product of the template's centred sample
\* and the centred sample of the previous frame at (r + a, c + b).  A
\* centred sample is x + scale * k for the template and y + scale * w for
\* the window, x and y the centred samples at the first position and k, w
\* the differences of the uint8 samples from the sample there, so the sum of
\* the products is 110*110*x*y + y*scale*sum(k) + x*scale*sum(w)
\* + scale*scale*sum(k*w); the three sums are taken sample by sample.
ScoresAreProducts ==
  LET scale == average_pixel_value[2] \div UInt8Max
      side == Height - 2 * Margin
      cur == Tabulate([a \in 0 .. (side - 1) |-> Tabulate([b \in 0 .. (side - 1) |->
               At(current_frame, Margin + a, Margin + b)])])
      prev == Tabulate([a \in 0 .. (Height - 1) |-> Tabulate([b \in 0 .. (Width - 1) |->
                At(previous_frame, a, b)])])
      positions == 0 .. (side * side - 1)
      k(e) == cur[e \div side][e % side] - cur[0][0]
  IN \A o \in CheckedOffsets :
       LET w(e) == prev[o[1] + (e \div side)][o[2] + (e % side)] - prev[o[1]][o[2]]
           x == cur[0][0] * scale - average_pixel_value[1]
           y == prev[o[1]][o[2]] * scale - average_pixel_value[1]
           sk == SumRange([e \in positions |-> k(e)], 0, side * side - 1)
           sw == SumRange([e \in positions |-> w(e)], 0, side * side - 1)
           skw == SumRange([e \in positions |-> k(e) * w(e)], 0, side * side - 1)
       IN output_image[o[1]][o[2]] =
            WAdd(WAdd(WTimes(WMul(x, y), side * side),
                      WTimes(WMul(y, sk), scale)),
                 WAdd(WTimes(WMul(x, sw), scale),
                      WTimes(WMul(scale, skw), scale)))

\* C3 as claimed: one score for every offset (r, c) with r and c in
\* 0 .. 2M inclusive, (2M+1) x (2M+1) scores, each the sum of the
\* elementwise product of the template with the window at (r, c).
C3_AllValidOffsets ==
  pc = "rescale" =>
    /\ DOMAIN output_image = 0 .. (2 * Margin)
    /\ \A r \in DOMAIN output_image : DOMAIN output_image[r] = 0 .. (2 * Margin)
    /\ ScoresAreProducts

\* C3 amended: one score for every offset (r, c) with r and c in
\* 0 .. 2M - 1, 2M x 2M scores, each the sum of the elementwise product of
\* the template with the window of the previous frame starting at (r, c).
C3_FiftyOffsets ==
  pc = "rescale" =>
    /\ DOMAIN output_image = 0 .. (2 * Margin - 1)
    /\ \A r \in DOMAIN output_image : DOMAIN output_image[r] = 0 .. (2 * Margin - 1)
    /\ ScoresAreProducts

C3_Witness ==
  /\ pc = "rescale"
  /\ previous_frame = ShiftedSquare
  /\ current_frame = SquareAndStrip
  /\ WLess(output_image[15][5], output_image[5][15])
  /\ 2 * Margin \notin DOMAIN output_image

\* C4: for a surface with max # min every sample of the returned frame is
\* in 0 .. 255, the least sample is 0 and the greatest sample is 255.
C4_FullContrast ==
  (pc = "returned" /\ degenerate = FALSE) =>
    /\ Samples(padded_image) \subseteq 0 .. 255
    /\ 0 \in Samples(padded_image)
    /\ 255 \in Samples(padded_image)

\* the sum of the squares of the window of the centred frame cp that starts
\* at (r, c): every piece contributes its value squared times the number of
\* its samples inside the window
Energy(cp, r, c) ==
  LET q == Len(cp.rects)
      inside == [k \in 1 .. q |-> Inside(cp, k, r, c, WindowSize, WindowSize)]
  IN WAdd(WTimes(WMul(cp.bg, cp.bg),
                 WindowSize * WindowSize - SumRange(inside, 1, q)),
          WSum([k \in 1 .. q |-> WTimes(WMul(cp.rects[k].v, cp.rects[k].v), inside[k])],
               1, q))

\* C5 as claimed: for a frame correlated with itself no offset scores
\* strictly higher than the centre offset (M, M).
C5_CentreIsMaximum ==
  (pc = "rescale" /\ previous_frame = current_frame) =>
    \A r \in OutIdx : \A c \in OutIdx :
      ~WLess(output_image[Margin][Margin], output_image[r][c])

\* C5 amended: for a frame correlated with itself the score at the centre
\* offset (M, M) is the template's sum of squares, and no offset whose
\* window has a sum of squares at most the template's scores strictly
\* higher than the centre offset.
C5_CentreBoundsWeakerWindows ==
  (pc = "rescale" /\ previous_frame = current_frame) =>
    LET e0 == Energy(normalized_current_frame, Margin, Margin)
    IN /\ output_image[Margin][Margin] = e0
       /\ \A r \in OutIdx : \A c \in OutIdx :
            ~WLess(e0, Energy(normalized_previous_frame, r, c))
              => ~WLess(output_image[Margin][Margin], output_image[r][c])

C5_Witness ==
  /\ pc = "rescale"
  /\ previous_frame = current_frame
  /\ previous_frame = Square(<<60, 60>>, 5)
  /\ WLess(<<0, 0>>, output_image[Margin][Margin])
  /\ ~WLess(Energy(normalized_current_frame, Margin, Margin),
            Energy(normalized_previous_frame, 24, 26))
  /\ WLess(output_image[24][26], output_image[Margin][Margin])

\* C6: the sink is handed the complete sequence exactly once, after the
\* last pair was correlated and before the return, when a filename is
\* given, and nothing when none is given; the hand-over leaves the sequence
\* as it is, and the sequence is not changed between hand-over and return.
C6_Step ==
  /\ (written' # written =>
        /\ pc = "write"
        /\ output_filename # None
        /\ written = << >>
        /\ written' = <<output>>
        /\ Len(output) = (IF Len(video) >= 2 THEN Len(video) - 1 ELSE 0))
  /\ (pc = "write" =>
        /\ output' = output
        /\ (output_filename # None => written' # written)
        /\ pc' = "return")
  /\ (pc = "return" => output' = output /\ written' = written)
  /\ (pc \in {"return", "done", "frames"} =>
        written = (IF output_filename = None THEN << >> ELSE <<output>>))

C6_WriteThrough == [][C6_Step]_vars

C6_Witness ==
  /\ pc = "return"
  /\ output_filename # None
  /\ Len(output) = 2
  /\ written = <<output>>

\* C7: with fewer than 3 correlation frames is_triangular_path raises
\* nothing and returns False; the turn counter never exceeds the number of
\* frames consumed minus one.
C7_TooFewFrames ==
  /\ pc # "raised"
  /\ turns <= (IF n = 0 THEN 0 ELSE n - 1)
  /\ ((pc = "done" /\ caller = "is_triangular_path" /\ Len(correlated_video) < 3)
        => result = FALSE)

C7_Witness ==
  /\ pc = "done"
  /\ caller = "is_triangular_path"
  /\ Len(video) = 3
  /\ Len(correlated_video) = 2
  /\ turns = 1
  /\ result = FALSE

IsFlat(f) == Cardinality(Values(f)) = 1

\* C8: on frames of constant intensity correlate_adjacent_frames raises
\* nothing, its surface has max = min and the frame it returns has every
\* sample in 0 .. 255; is_triangular_path on a video of such frames ends
\* with a boolean.
C8_FlatFrames ==
  (\A k \in 1 .. Len(video) : IsFlat(video[k])) =>
    /\ pc # "raised"
    /\ (pc = "returned" =>
          /\ degenerate = TRUE
          /\ Samples(padded_image) \subseteq 0 .. 255)
    /\ ((pc = "done" /\ caller = "is_triangular_path") => result \in BOOLEAN)

C8_Witness ==
  /\ pc = "done"
  /\ caller = "is_triangular_path"
  /\ Len(video) = 3
  /\ video[1] # video[2]
  /\ \A k \in 1 .. 3 : IsFlat(video[k])
  /\ Len(correlated_video) = 2
  /\ result = FALSE

\* the sum of the fully in-bounds 2x2 block with top-left corner q
Block2x2(f, q) ==
  f[q[1]][q[2]] + f[q[1]][q[2] + 1] + f[q[1] + 1][q[2]] + f[q[1] + 1][q[2] + 1]

\* q comes before p in the row-major scan
Earlier(q, p) == q[1] < p[1] \/ (q[1] = p[1] /\ q[2] < p[2])

IsPeak(f, p) ==
  LET sum == Tabulate([q \in ScanGrid \X ScanGrid |-> Block2x2(f, q)])
  IN /\ p \in ScanGrid \X ScanGrid
     /\ IF \A q \in ScanGrid \X ScanGrid : sum[q] = 0
        THEN p = <<0, 0>>
        ELSE /\ sum[p] > 0
             /\ \A q \in ScanGrid \X ScanGrid :
                  sum[q] <= sum[p] /\ (sum[q] = sum[p] => ~Earlier(q, p))

\* C9: the peak location of a 50x50 frame is the first corner, in row-major
\* order over r, c in {0, 4, ..., 48}, whose 2x2 block sum is the greatest
\* of all scanned corners and greater than 0, and (0, 0) if every scanned
\* block sums to 0; its coordinates are multiples of 4 in 0 .. 48.
C9_PeakIsFirstGreatest ==
  \A k \in 1 .. Len(max_locs) : IsPeak(correlated_video[k], max_locs[k])

\* two equal blocks: the one scanned first is the peak
C9_Witness ==
  /\ Len(max_locs) = 1
  /\ max_locs[1] = <<4, 20>>
  /\ Block2x2(correlated_video[1], <<8, 8>>) = Block2x2(correlated_video[1], <<4, 20>>)

\* the mean of the scaled samples of both frames, concatenated
PooledMean(previous, current) ==
  <<SumPixels(previous) + SumPixels(current), UInt8Max * (2 * Height * Width)>>

\* C10: the scalar subtracted from the scaled frames is the mean of the
\* concatenation of all scaled samples of both frames, and that one scalar
\* is subtracted from every sample of both frames.
C10_PooledMean ==
  pc = "correlate" =>
    LET scale == average_pixel_value[2] \div UInt8Max
        same(f, g) ==
          /\ f.bg * scale - g.bg = average_pixel_value[1]
          /\ Len(g.rects) = Len(f.rects)
          /\ \A k \in 1 .. Len(f.rects) :
               /\ [g.rects[k] EXCEPT !.v = 0] = [f.rects[k] EXCEPT !.v = 0]
               /\ f.rects[k].v * scale - g.rects[k].v = average_pixel_value[1]
    IN /\ RatEq(average_pixel_value, PooledMean(previous_frame, current_frame))
       /\ same(previous_frame, normalized_previous_frame)
       /\ same(current_frame, normalized_current_frame)

C10_Witness ==
  /\ pc = "correlate"
  /\ SumPixels(previous_frame) > SumPixels(current_frame)
  /\ SumPixels(current_frame) > 0
  /\ average_pixel_value[1] > 0

====
